---- MODULE Spec2Model ----
(***************************************************************************)
(* diagnostics_app.py: a Streamlit script that runs top to bottom once per *)
(* render.  Step 1 checks the shape of the secrets, Step 2 exchanges them  *)
(* for a token, Step 3 opens the spreadsheet and shows a preview.          *)
(*                                                                         *)
(* Strings are sequences of tokens (a token is one character or one fixed  *)
(* multi-character piece such as "-----"), so that `in`, startswith,       *)
(* endswith, strip and re.search are computed position by position.        *)
(***************************************************************************)
EXTENDS Integers, Sequences, FiniteSets, TLC

VARIABLES
    pc,        \* position of the script
    secrets,   \* st.secrets: the host's read-only secret store
    info,      \* the name `info` (line 22)
    creds,     \* the name `creds` (line 72): TRUE once bound
    locator,   \* the name `spreadsheet_url_or_id` (line 93)
    sheet_id,  \* the name `sheet_id` (lines 99/102)
    exc,       \* the exception being handled, "none" otherwise
    out,       \* what has been rendered on the page, in order
    calls,     \* calls made to google-auth / gspread, with their outcome
    raised     \* every exception raised so far, with the place that raised it

vars == <<pc, secrets, info, creds, locator, sheet_id, exc, out, calls, raised>>

----------------------------------------------------------------------------
(* Bounds of the two exhaustive string domains.                            *)
MaxPkLen == 4
MaxLocLen == 5

----------------------------------------------------------------------------
(* Values of the secret store: a TOML value is a string or something else  *)
(* (an integer, a table ...).                                              *)
Str(s) == [isStr |-> TRUE, s |-> s]
NonStr == [isStr |-> FALSE, s |-> <<>>]

RECURSIVE SeqsUpTo(_, _)
SeqsUpTo(A, n) ==
    IF n = 0 THEN {<<>>}
    ELSE LET shorter == SeqsUpTo(A, n - 1)
         IN  shorter \cup {Append(s, a) : s \in {t \in shorter : Len(t) = n - 1}, a \in A}

(* str.__contains__: sub occurs in s as a contiguous run.                  *)
Contains(sub, s) ==
    \E i \in 1..(Len(s) - Len(sub) + 1) : SubSeq(s, i, i + Len(sub) - 1) = sub

(* str.startswith / str.endswith                                           *)
StartsWith(s, p) == Len(p) <= Len(s) /\ SubSeq(s, 1, Len(p)) = p
EndsWith(s, p) == Len(p) <= Len(s) /\ SubSeq(s, Len(s) - Len(p) + 1, Len(s)) = p

(* str.strip(): drop leading and trailing whitespace, one character at a   *)
(* time.  "\n" and " " are the whitespace tokens of the alphabets used.    *)
Whitespace == {"\n", " "}

RECURSIVE LStrip(_)
LStrip(s) == IF s # <<>> /\ Head(s) \in Whitespace THEN LStrip(Tail(s)) ELSE s

RECURSIVE RStrip(_)
RStrip(s) ==
    IF s # <<>> /\ s[Len(s)] \in Whitespace THEN RStrip(SubSeq(s, 1, Len(s) - 1)) ELSE s

Strip(s) == RStrip(LStrip(s))

----------------------------------------------------------------------------
(* Exceptions.  Parent is the class hierarchy of the exception classes the *)
(* script can meet; st.stop() raises StopException, which derives from     *)
(* BaseException and not from Exception.                                   *)
Parent(c) ==
    CASE c = "StopException"       -> "BaseException"
      [] c = "Exception"           -> "BaseException"
      [] c = "GSpreadException"    -> "Exception"
      [] c = "SpreadsheetNotFound" -> "GSpreadException"
      [] c = "APIError"            -> "GSpreadException"
      [] c = "WorksheetNotFound"   -> "GSpreadException"
      [] OTHER                     -> "Exception"

RECURSIVE IsInstance(_, _)
IsInstance(k, c) ==
    IF k = c THEN TRUE
    ELSE IF k = "BaseException" THEN FALSE
    ELSE IsInstance(Parent(k), c)

(* `except Exception` of Step 1 (line 59) and of Step 2 (line 78).         *)
(* Variant: a bare `except:`, which also catches StopException.            *)
ExceptException_mut(k) == TRUE
ExceptException(k) == IsInstance(k, "Exception")

(* Where control goes when k is raised inside the try of Step 1.           *)
HandlerS1(k) == IF ExceptException(k) THEN "s1_except" ELSE "done"

(* Where control goes when k is raised inside the try of Step 2.           *)
HandlerS2(k) == IF ExceptException(k) THEN "s2_except" ELSE "done"

----------------------------------------------------------------------------
(* Rendered elements: st.<kind>(<message id>, <interpolated value>).       *)
Msg(kind, id, arg) == [kind |-> kind, id |-> id, arg |-> arg]
M(kind, id) == Msg(kind, id, <<>>)

Raise(at, k) == Append(raised, [at |-> at, kind |-> k])

----------------------------------------------------------------------------
(* Step 1: the secret store and its checks.                                *)
required_keys ==
    <<"type", "project_id", "private_key_id", "private_key", "client_email", "client_id">>

RequiredSet == {required_keys[i] : i \in 1..Len(required_keys)}

(* dict.get(key, "")                                                       *)
Get(d, key) == IF key \in DOMAIN d THEN d[key] ELSE Str(<<>>)

(* line 26: [key for key in required_keys if key not in info]              *)
RECURSIVE MissingFrom(_, _)
MissingFrom(keys, d) ==
    IF keys = <<>> THEN <<>>
    ELSE IF Head(keys) \notin DOMAIN d
         THEN <<Head(keys)>> \o MissingFrom(Tail(keys), d)
         ELSE MissingFrom(Tail(keys), d)

(* Variant: the scan skips the first required key.                         *)
missing_keys_mut(d) == MissingFrom(Tail(required_keys), d)
missing_keys(d) == MissingFrom(required_keys, d)

(* line 35 *)
ServiceDomain == <<".iam", ".gserviceaccount", ".com">>
EmailLooksRight(e) == Contains(<<"@">>, e) /\ Contains(ServiceDomain, e)

(* lines 44, 49, 54; variant of the header test: no strip().               *)
PemHeader == <<"-----", "BEGIN PRIVATE KEY", "-----">>
PemFooter == <<"-----", "END PRIVATE KEY", "-----">>
HasHeader_mut(pk) == StartsWith(pk, PemHeader)
HasHeader(pk) == StartsWith(Strip(pk), PemHeader)
HasFooter(pk) == EndsWith(Strip(pk), PemFooter)
HasNewline(pk) == Contains(<<"\\", "n">>, pk) \/ Contains(<<"\n">>, pk)

Unbound == [bound |-> FALSE, val |-> [k \in {} |-> NonStr]]
Bound(d) == [bound |-> TRUE, val |-> d]

(* Input domains.                                                          *)
GoodEmail == <<"a", "@", "p", ".iam", ".gserviceaccount", ".com">>
EmailSamples ==
    { Str(GoodEmail),
      Str(<<"a", ".iam", ".gserviceaccount", ".com">>),                 \* no "@"
      Str(<<"a", "@", "p", ".com">>),                                   \* another domain
      Str(<<"a", "@", "p", ".iam", ".gserviceaccount", ".com", ".x">>), \* domain not at the end
      NonStr }

PkAlphabet == {"-----", "BEGIN PRIVATE KEY", "END PRIVATE KEY", "\n", "\\", "n"}
GoodPk == PemHeader \o <<"\n", "n", "\n">> \o PemFooter \o <<"\n">>
PkSamples ==
    { Str(GoodPk),
      Str(PemHeader \o <<"\\", "n", "n", "\\", "n">> \o PemFooter),     \* escaped newlines
      Str(<<"n", "\n">> \o PemFooter),                                  \* no header
      Str(PemHeader \o <<"\n", "n">>),                                  \* no footer
      Str(PemHeader \o <<"n">> \o PemFooter),                           \* no newline at all
      Str(<<"\n">> \o PemHeader \o <<"n">> \o PemFooter),               \* newline only around
      NonStr }

(* The tables [gcp_service_account] can be: any subset of the required     *)
(* keys, with a value for client_email and private_key when present.       *)
Tables ==
    UNION { UNION { { [k \in K |-> CASE k = "client_email" -> e
                                     [] k = "private_key"  -> p
                                     [] OTHER              -> Str(<<"v">>)]
                      : e \in (IF "client_email" \in K THEN EmailSamples ELSE {NonStr}) }
                    : p \in (IF "private_key" \in K THEN PkSamples ELSE {NonStr}) }
            : K \in SUBSET RequiredSet }

FullTable(e, p) ==
    [k \in RequiredSet |-> CASE k = "client_email" -> e
                             [] k = "private_key"  -> p
                             [] OTHER              -> Str(<<"v">>)]

LocAlphabet == {"/", "d", "-", "#"}
UrlLocator == <<"#", "/", "d", "/", "d", "-", "/", "#">>
LocSamples == { Str(UrlLocator), Str(<<"d", "-", "d">>), NonStr }

(* How much of connections.gsheets.spreadsheet exists (line 89).           *)
ConnLevels == {"none", "connections", "gsheets", "spreadsheet"}

Stores(tables, levels, locators) ==
    { [readable |-> FALSE, hasGcp |-> FALSE, gcp |-> Unbound.val,
       conn |-> "none", spreadsheet |-> NonStr] }
    \cup
    { [readable |-> TRUE, hasGcp |-> FALSE, gcp |-> Unbound.val,
       conn |-> "none", spreadsheet |-> NonStr] }
    \cup
    { [readable |-> TRUE, hasGcp |-> TRUE, gcp |-> t, conn |-> c, spreadsheet |-> NonStr]
        : t \in tables, c \in levels \ {"spreadsheet"} }
    \cup
    { [readable |-> TRUE, hasGcp |-> TRUE, gcp |-> t, conn |-> "spreadsheet", spreadsheet |-> l]
        : t \in tables, l \in locators }

----------------------------------------------------------------------------
(* Lines 9-14.                                                             *)
Prelude ==
    << M("title", "title"), M("caption", "caption"),
       M("header", "step1"), M("info", "step1_info") >>

S1_Header ==
    /\ pc = "start"
    /\ out' = out \o Prelude
    /\ pc' = "s1_table"
    /\ UNCHANGED <<secrets, info, creds, locator, sheet_id, exc, calls, raised>>

(* Lines 18-22: the membership test reads the store, which raises when the *)
(* store cannot be loaded; a missing table is reported and st.stop()       *)
(* raises StopException inside the try.                                    *)
S1_Table ==
    /\ pc = "s1_table"
    /\ IF ~secrets.readable
       THEN /\ raised' = Raise("s1_table", "FileNotFoundError")
            /\ exc' = "FileNotFoundError"
            /\ pc' = HandlerS1("FileNotFoundError")
            /\ UNCHANGED <<info, out>>
       ELSE IF ~secrets.hasGcp
       THEN /\ out' = Append(out, M("error", "no_gcp_table"))
            /\ raised' = Raise("s1_table", "StopException")
            /\ exc' = "StopException"
            /\ pc' = HandlerS1("StopException")
            /\ UNCHANGED info
       ELSE /\ info' = Bound(secrets.gcp)
            /\ pc' = "s1_keys"
            /\ UNCHANGED <<out, raised, exc>>
    /\ UNCHANGED <<secrets, creds, locator, sheet_id, calls>>

(* Lines 25-31. *)
KeysOutput(d) ==
    IF missing_keys(d) # <<>>
    THEN Msg("error", "missing_keys", missing_keys(d))
    ELSE M("success", "keys_present")

S1_Keys ==
    /\ pc = "s1_keys"
    /\ out' = Append(out, KeysOutput(info.val))
    /\ pc' = "s1_email"
    /\ UNCHANGED <<secrets, info, creds, locator, sheet_id, exc, calls, raised>>

(* Lines 34-38: `"@" in client_email` raises TypeError on a non-string.    *)
EmailOutput(e) ==
    IF EmailLooksRight(e)
    THEN Msg("success", "email_ok", e)
    ELSE Msg("warning", "email_format", e)

S1_Email ==
    /\ pc = "s1_email"
    /\ LET client_email == Get(info.val, "client_email")
       IN  IF client_email.isStr
           THEN /\ out' = Append(out, EmailOutput(client_email.s))
                /\ pc' = "s1_pk_header"
                /\ UNCHANGED <<raised, exc>>
           ELSE /\ raised' = Raise("s1_email", "TypeError")
                /\ exc' = "TypeError"
                /\ pc' = HandlerS1("TypeError")
                /\ UNCHANGED out
    /\ UNCHANGED <<secrets, info, creds, locator, sheet_id, calls>>

(* Lines 41-47: pk.strip() raises AttributeError on a non-string, after    *)
(* the separator and the subheader were rendered.                          *)
PkIntro == << Msg("write", "rule", <<>>), Msg("subheader", "pk_check", <<>>) >>

HeaderOutput(pk) ==
    IF HasHeader(pk) THEN M("success", "pk_header_ok") ELSE M("error", "pk_header_bad")

S1_PkHeader ==
    /\ pc = "s1_pk_header"
    /\ LET pk == Get(info.val, "private_key")
       IN  IF pk.isStr
           THEN /\ out' = out \o PkIntro \o <<HeaderOutput(pk.s)>>
                /\ pc' = "s1_pk_footer"
                /\ UNCHANGED <<raised, exc>>
           ELSE /\ out' = out \o PkIntro
                /\ raised' = Raise("s1_pk_header", "AttributeError")
                /\ exc' = "AttributeError"
                /\ pc' = HandlerS1("AttributeError")
    /\ UNCHANGED <<secrets, info, creds, locator, sheet_id, calls>>

(* Lines 49-52. *)
FooterOutput(pk) ==
    IF HasFooter(pk) THEN M("success", "pk_footer_ok") ELSE M("error", "pk_footer_bad")

S1_PkFooter ==
    /\ pc = "s1_pk_footer"
    /\ out' = Append(out, FooterOutput(Get(info.val, "private_key").s))
    /\ pc' = "s1_pk_newline"
    /\ UNCHANGED <<secrets, info, creds, locator, sheet_id, exc, calls, raised>>

(* Lines 54-57. *)
NewlineOutput(pk) ==
    IF HasNewline(pk) THEN M("success", "pk_newline_ok") ELSE M("warning", "pk_newline_missing")

S1_PkNewline ==
    /\ pc = "s1_pk_newline"
    /\ out' = Append(out, NewlineOutput(Get(info.val, "private_key").s))
    /\ pc' = "s2_header"
    /\ UNCHANGED <<secrets, info, creds, locator, sheet_id, exc, calls, raised>>

(* Lines 59-61: the handler reports and falls through to Step 2.           *)
S1_Except ==
    /\ pc = "s1_except"
    /\ out' = out \o << M("error", "secrets_unexpected"), Msg("exception", "exception", <<exc>>) >>
    /\ exc' = "none"
    /\ pc' = "s2_header"
    /\ UNCHANGED <<secrets, info, creds, locator, sheet_id, calls, raised>>

Step1 ==
    \/ S1_Header \/ S1_Table \/ S1_Keys \/ S1_Email
    \/ S1_PkHeader \/ S1_PkFooter \/ S1_PkNewline \/ S1_Except

----------------------------------------------------------------------------
(* Step 2: lines 63-81.                                                    *)
Call(fn, arg, res) == [fn |-> fn, arg |-> arg, res |-> res]

S2_Header ==
    /\ pc = "s2_header"
    /\ out' = out \o << M("header", "step2"), M("info", "step2_info") >>
    /\ pc' = "s2_construct"
    /\ UNCHANGED <<secrets, info, creds, locator, sheet_id, exc, calls, raised>>

(* Line 72: evaluating the argument `info` raises NameError when Step 1    *)
(* never bound it; otherwise the library builds the credentials or raises. *)
S2_Construct ==
    /\ pc = "s2_construct"
    /\ IF ~info.bound
       THEN /\ raised' = Raise("s2_construct", "NameError")
            /\ exc' = "NameError"
            /\ pc' = HandlerS2("NameError")
            /\ UNCHANGED <<creds, calls>>
       ELSE \/ /\ calls' = Append(calls, Call("from_service_account_info", <<>>, "ok"))
               /\ creds' = TRUE
               /\ pc' = "s2_refresh"
               /\ UNCHANGED <<raised, exc>>
            \/ /\ calls' = Append(calls, Call("from_service_account_info", <<>>, "ValueError"))
               /\ raised' = Raise("s2_construct", "ValueError")
               /\ exc' = "ValueError"
               /\ pc' = HandlerS2("ValueError")
               /\ UNCHANGED creds
    /\ UNCHANGED <<secrets, info, locator, sheet_id, out>>

(* Lines 73-76: the token exchange and, when it returns, its report.       *)
S2_Refresh ==
    /\ pc = "s2_refresh"
    /\ \/ /\ calls' = Append(calls, Call("refresh", <<>>, "ok"))
          /\ out' = out \o << M("success", "auth_ok"), M("write", "token_valid"),
                              M("write", "token_expiry") >>
          /\ pc' = "s3_header"
          /\ UNCHANGED <<raised, exc>>
       \/ /\ calls' = Append(calls, Call("refresh", <<>>, "RefreshError"))
          /\ raised' = Raise("s2_refresh", "RefreshError")
          /\ exc' = "RefreshError"
          /\ pc' = HandlerS2("RefreshError")
          /\ UNCHANGED out
    /\ UNCHANGED <<secrets, info, creds, locator, sheet_id>>

(* Lines 78-81: report, then st.stop() at top level ends the run.          *)
(* Variant: the handler without st.stop() falls through to Step 3.         *)
S2_Except_mut ==
    /\ pc = "s2_except"
    /\ out' = out \o << M("error", "auth_failed"), Msg("exception", "exception", <<exc>>) >>
    /\ exc' = "none"
    /\ pc' = "s3_header"
    /\ UNCHANGED <<secrets, info, creds, locator, sheet_id, calls, raised>>

S2_Except ==
    /\ pc = "s2_except"
    /\ out' = out \o << M("error", "auth_failed"), Msg("exception", "exception", <<exc>>) >>
    /\ raised' = Raise("s2_except", "StopException")
    /\ exc' = "StopException"
    /\ pc' = "done"
    /\ UNCHANGED <<secrets, info, creds, locator, sheet_id, calls>>

Step2 == S2_Header \/ S2_Construct \/ S2_Refresh \/ S2_Except

----------------------------------------------------------------------------
(* Step 3: lines 84-124.                                                   *)

(* The except clauses of lines 115, 118 and 122, tried in that order; an   *)
(* exception none of them names leaves the script.                         *)
(* Variant: `except Exception` tried first.                                *)
HandlerS3_mut(k) ==
    IF IsInstance(k, "Exception") THEN "s3_except"
    ELSE IF IsInstance(k, "SpreadsheetNotFound") THEN "s3_except_nf"
    ELSE IF IsInstance(k, "APIError") THEN "s3_except_api"
    ELSE "done"

HandlerS3(k) ==
    IF IsInstance(k, "SpreadsheetNotFound") THEN "s3_except_nf"
    ELSE IF IsInstance(k, "APIError") THEN "s3_except_api"
    ELSE IF IsInstance(k, "Exception") THEN "s3_except"
    ELSE "done"

S3_Header ==
    /\ pc = "s3_header"
    /\ out' = out \o << M("header", "step3"), M("info", "step3_info") >>
    /\ pc' = "s3_conn"
    /\ UNCHANGED <<secrets, info, creds, locator, sheet_id, exc, calls, raised>>

(* Lines 89-91.  Variant of the check: without st.stop(), line 93 raises   *)
(* KeyError on the missing entry.                                          *)
ConnPresent == secrets.conn = "spreadsheet"

S3_Conn_mut ==
    /\ pc = "s3_conn"
    /\ IF ~ConnPresent
       THEN /\ out' = Append(out, M("error", "no_connection"))
            /\ raised' = Raise("s3_conn", "KeyError")
            /\ exc' = "KeyError"
            /\ pc' = HandlerS3("KeyError")
       ELSE /\ pc' = "s3_locator"
            /\ UNCHANGED <<out, raised, exc>>
    /\ UNCHANGED <<secrets, info, creds, locator, sheet_id, calls>>

S3_Conn ==
    /\ pc = "s3_conn"
    /\ IF ~secrets.readable
       THEN /\ raised' = Raise("s3_conn", "FileNotFoundError")
            /\ exc' = "FileNotFoundError"
            /\ pc' = HandlerS3("FileNotFoundError")
            /\ UNCHANGED out
       ELSE IF ~ConnPresent
       THEN /\ out' = Append(out, M("error", "no_connection"))
            /\ raised' = Raise("s3_conn", "StopException")
            /\ exc' = "StopException"
            /\ pc' = HandlerS3("StopException")
       ELSE /\ pc' = "s3_locator"
            /\ UNCHANGED <<out, raised, exc>>
    /\ UNCHANGED <<secrets, info, creds, locator, sheet_id, calls>>

(* Lines 93-94. *)
S3_Locator ==
    /\ pc = "s3_locator"
    /\ locator' = secrets.spreadsheet
    /\ out' = Append(out, Msg("write", "attempting", secrets.spreadsheet.s))
    /\ pc' = "s3_extract"
    /\ UNCHANGED <<secrets, info, creds, sheet_id, exc, calls, raised>>
(* Line 97: re.search(r"/d/([a-zA-Z0-9-_]+)", s).  The class holds the     *)
(* ASCII letters, the digits, "-" and "_".                                 *)
IdChars ==
    { "a", "b", "c", "d", "e", "f", "g", "h", "i", "j", "k", "l", "m",
      "n", "o", "p", "q", "r", "s", "t", "u", "v", "w", "x", "y", "z",
      "A", "B", "C", "D", "E", "F", "G", "H", "I", "J", "K", "L", "M",
      "N", "O", "P", "Q", "R", "S", "T", "U", "V", "W", "X", "Y", "Z",
      "0", "1", "2", "3", "4", "5", "6", "7", "8", "9", "-", "_" }

(* The pattern tried at position i: "/", "d", "/", then one class          *)
(* character at least.                                                     *)
MatchAt(s, i) ==
    /\ i + 3 <= Len(s)
    /\ s[i] = "/" /\ s[i + 1] = "d" /\ s[i + 2] = "/"
    /\ s[i + 3] \in IdChars

(* The greedy `+`: the last position of the run of class characters that   *)
(* starts at j.                                                            *)
RECURSIVE RunEnd(_, _)
RunEnd(s, j) == IF j < Len(s) /\ s[j + 1] \in IdChars THEN RunEnd(s, j + 1) ELSE j

(* The scan of re.search: the leftmost position where the pattern matches, *)
(* 0 when there is none.                                                   *)
RECURSIVE SearchFrom(_, _)
SearchFrom(s, i) ==
    IF i > Len(s) THEN 0
    ELSE IF MatchAt(s, i) THEN i
    ELSE SearchFrom(s, i + 1)

(* Variant: a lazy `+?`, which captures one character.                     *)
re_search_mut(s) ==
    LET i == SearchFrom(s, 1)
    IN  IF i = 0 THEN [matched |-> FALSE, group1 |-> <<>>]
        ELSE [matched |-> TRUE, group1 |-> SubSeq(s, i + 3, i + 3)]

re_search(s) ==
    LET i == SearchFrom(s, 1)
    IN  IF i = 0 THEN [matched |-> FALSE, group1 |-> <<>>]
        ELSE [matched |-> TRUE, group1 |-> SubSeq(s, i + 3, RunEnd(s, i + 3))]

(* Lines 97-103: re.search raises TypeError on a non-string.               *)
S3_Extract ==
    /\ pc = "s3_extract"
    /\ IF ~locator.isStr
       THEN /\ raised' = Raise("s3_extract", "TypeError")
            /\ exc' = "TypeError"
            /\ pc' = HandlerS3("TypeError")
            /\ UNCHANGED <<sheet_id, out>>
       ELSE LET match == re_search(locator.s)
            IN  /\ IF match.matched
                   THEN /\ sheet_id' = match.group1
                        /\ out' = Append(out, Msg("write", "extracted_id", match.group1))
                   ELSE /\ sheet_id' = locator.s
                        /\ out' = Append(out, M("write", "assuming_id"))
                /\ pc' = "s3_authorize"
                /\ UNCHANGED <<raised, exc>>
    /\ UNCHANGED <<secrets, info, creds, locator, calls>>

(* One call of the gspread client library at position at: it returns, or   *)
(* it raises one of errs.  Control goes to next, or to the handler.        *)
LibCall(at, fn, arg, errs, okOut, next) ==
    /\ \/ /\ calls' = Append(calls, Call(fn, arg, "ok"))
          /\ out' = out \o okOut
          /\ pc' = next
          /\ UNCHANGED <<raised, exc>>
       \/ \E k \in errs :
          /\ calls' = Append(calls, Call(fn, arg, k))
          /\ raised' = Raise(at, k)
          /\ exc' = k
          /\ pc' = HandlerS3(k)
          /\ UNCHANGED out
    /\ UNCHANGED <<secrets, info, creds, locator, sheet_id>>

(* Line 105: evaluating the argument `creds` raises NameError when Step 2  *)
(* never bound it.                                                         *)
S3_Authorize ==
    /\ pc = "s3_authorize"
    /\ IF ~creds
       THEN /\ raised' = Raise("s3_authorize", "NameError")
            /\ exc' = "NameError"
            /\ pc' = HandlerS3("NameError")
            /\ UNCHANGED <<secrets, info, creds, locator, sheet_id, out, calls>>
       ELSE LibCall("s3_authorize", "authorize", <<>>, {"TypeError"}, <<>>, "s3_open")

(* Lines 106-108. *)
S3_Open ==
    /\ pc = "s3_open"
    /\ LibCall("s3_open", "open_by_key", sheet_id,
               {"SpreadsheetNotFound", "APIError", "ConnectionError"},
               << M("success", "opened") >>, "s3_worksheet")

(* Line 110. *)
S3_Worksheet ==
    /\ pc = "s3_worksheet"
    /\ LibCall("s3_worksheet", "worksheet", <<"Sheet1">>,
               {"WorksheetNotFound", "APIError"}, <<>>, "s3_read")

(* Lines 111-113: the records are read and the preview is rendered.        *)
(* Variant: the preview rendered before the records are read.              *)
S3_Read_mut ==
    /\ pc = "s3_read"
    /\ out' = out \o << M("write", "read_rows"), M("dataframe", "preview") >>
    /\ \/ /\ calls' = Append(calls, Call("get_all_records", <<>>, "ok"))
          /\ pc' = "done"
          /\ UNCHANGED <<raised, exc>>
       \/ \E k \in {"APIError", "GSpreadException"} :
          /\ calls' = Append(calls, Call("get_all_records", <<>>, k))
          /\ raised' = Raise("s3_read", k)
          /\ exc' = k
          /\ pc' = HandlerS3(k)
    /\ UNCHANGED <<secrets, info, creds, locator, sheet_id>>

S3_Read ==
    /\ pc = "s3_read"
    /\ LibCall("s3_read", "get_all_records", <<>>, {"APIError", "GSpreadException"},
            << M("write", "read_rows"), M("dataframe", "preview") >>, "done")

(* Lines 115-117. *)
S3_ExceptNotFound ==
    /\ pc = "s3_except_nf"
    /\ out' = out \o << M("error", "not_found"), M("write", "not_found_action") >>
    /\ exc' = "none"
    /\ pc' = "done"
    /\ UNCHANGED <<secrets, info, creds, locator, sheet_id, calls, raised>>

(* Lines 118-121. *)
S3_ExceptAPI ==
    /\ pc = "s3_except_api"
    /\ out' = out \o << M("error", "api_error"), Msg("exception", "exception", <<exc>>),
                        M("write", "api_error_action") >>
    /\ exc' = "none"
    /\ pc' = "done"
    /\ UNCHANGED <<secrets, info, creds, locator, sheet_id, calls, raised>>

(* Lines 122-124. *)
S3_Except ==
    /\ pc = "s3_except"
    /\ out' = out \o << M("error", "sheet_unexpected"), Msg("exception", "exception", <<exc>>) >>
    /\ exc' = "none"
    /\ pc' = "done"
    /\ UNCHANGED <<secrets, info, creds, locator, sheet_id, calls, raised>>

Step3 ==
    \/ S3_Header \/ S3_Conn \/ S3_Locator \/ S3_Extract
    \/ S3_Authorize \/ S3_Open \/ S3_Worksheet \/ S3_Read
    \/ S3_ExceptNotFound \/ S3_ExceptAPI \/ S3_Except

----------------------------------------------------------------------------
(* One run of the script.                                                  *)
Fresh ==
    /\ pc = "start"
    /\ info = Unbound
    /\ creds = FALSE
    /\ locator = NonStr
    /\ sheet_id = <<>>
    /\ exc = "none"
    /\ out = <<>>
    /\ calls = <<>>
    /\ raised = <<>>

Init ==
    /\ secrets \in Stores(Tables, ConnLevels, LocSamples)
    /\ Fresh

Next == Step1 \/ Step2 \/ Step3

Spec == Init /\ [][Next]_vars

(* Step 1 on every private key of at most MaxPkLen tokens, in a table     *)
(* that passes the earlier checks and in one that fails them.              *)
PkValues == {Str(p) : p \in SeqsUpTo(PkAlphabet, MaxPkLen)} \cup PkSamples

PkTables ==
    { FullTable(Str(GoodEmail), p) : p \in PkValues }
    \cup
    { [k \in RequiredSet \ {"client_id"} |-> FullTable(Str(<<"a", "@", "p", ".com">>), p)[k]]
        : p \in PkValues }

InitPk ==
    /\ secrets \in Stores(PkTables, {}, {Str(UrlLocator)})
    /\ Fresh

SpecPk == InitPk /\ [][Step1]_vars

(* The whole run on every locator of at most MaxLocLen characters.         *)
LocValues == {Str(l) : l \in SeqsUpTo(LocAlphabet, MaxLocLen)} \cup {NonStr}

InitLoc ==
    /\ secrets \in Stores({FullTable(Str(GoodEmail), Str(GoodPk))}, ConnLevels, LocValues)
    /\ Fresh

SpecLoc == InitLoc /\ [][Next]_vars

----------------------------------------------------------------------------
(* Reading the page and the call log.                                      *)
Rendered(id) == \E i \in 1..Len(out) : out[i].id = id
TimesRendered(id) == Cardinality({i \in 1..Len(out) : out[i].id = id})
Called(fn) == \E i \in 1..Len(calls) : calls[i].fn = fn
Returned(fn) == \E i \in 1..Len(calls) : calls[i].fn = fn /\ calls[i].res = "ok"
RaisedAt(sites) == \E i \in 1..Len(raised) : raised[i].at \in sites
Elems(s) == {s[i] : i \in 1..Len(s)}

Step2Sites == {"s2_construct", "s2_refresh"}
Step3Ids ==
    { "step3", "step3_info", "no_connection", "attempting", "extracted_id", "assuming_id",
      "opened", "read_rows", "preview", "not_found", "not_found_action", "api_error",
      "api_error_action", "sheet_unexpected" }
Step3Calls == {"authorize", "open_by_key", "worksheet", "get_all_records"}

TablePresent == secrets.readable /\ secrets.hasGcp
TableMissing == secrets.readable /\ ~secrets.hasGcp

----------------------------------------------------------------------------
(* C1: whenever credential construction or the token refresh has raised,   *)
(* the run is in Step 2's handler or over; once over, the last things      *)
(* rendered are the 'Authentication Failed' error and its exception, and   *)
(* nothing of Step 3 was rendered, looked up or called.                    *)
C1_AuthFailureHalts ==
    RaisedAt(Step2Sites) =>
        /\ pc \in {"s2_except", "done"}
        /\ pc = "done" =>
              /\ TimesRendered("auth_failed") = 1
              /\ Len(out) >= 2
              /\ out[Len(out) - 1].id = "auth_failed"
              /\ out[Len(out)].kind = "exception"
        /\ \A i \in 1..Len(out) : out[i].id \notin Step3Ids
        /\ \A i \in 1..Len(calls) : calls[i].fn \notin Step3Calls
        /\ ~locator.isStr /\ sheet_id = <<>>

C1_Witness ==
    /\ pc = "done"
    /\ \E i \in 1..Len(raised) : raised[i] = [at |-> "s2_refresh", kind |-> "RefreshError"]
    /\ Rendered("auth_failed")

(* C2: with the store readable and the table absent, the page is the       *)
(* prelude followed by the missing-table error and nothing else, no call   *)
(* is ever made, and the script never gets past the table check.           *)
C2_MissingTableHalts ==
    TableMissing =>
        /\ pc \in {"start", "s1_table", "done"}
        /\ calls = <<>>
        /\ pc = "start" => out = <<>>
        /\ pc = "s1_table" => out = Prelude
        /\ pc = "done" => out = Append(Prelude, M("error", "no_gcp_table"))

C2_Witness ==
    /\ TableMissing
    /\ pc = "done"
    /\ Rendered("no_gcp_table")

(* C3: once the key check has run on a bound table, exactly one of the     *)
(* missing-keys error and the all-present success is on the page; the      *)
(* error names each absent required key once and no present key, and the   *)
(* success is there exactly when no required key is absent.                *)
KeyCheckDone == info.bound /\ pc \notin {"start", "s1_table", "s1_keys"}
Absent == RequiredSet \ DOMAIN info.val

C3_ExactMissingKeys ==
    KeyCheckDone =>
        /\ TimesRendered("missing_keys") + TimesRendered("keys_present") = 1
        /\ Rendered("keys_present") <=> Absent = {}
        /\ \A i \in 1..Len(out) :
              out[i].id = "missing_keys" =>
                  /\ out[i].kind = "error"
                  /\ Elems(out[i].arg) = Absent
                  /\ Len(out[i].arg) = Cardinality(Absent)

C3_Witness ==
    /\ KeyCheckDone
    /\ Absent = {"type", "client_id"}
    /\ \E i \in 1..Len(out) : out[i].id = "missing_keys" /\ out[i].arg = <<"type", "client_id">>

(* C4: the identifier handed to open_by_key is, for a locator holding a    *)
(* "/d/" followed by a class character, the maximal run of class           *)
(* characters after the first such "/d/", and otherwise the locator.       *)
SegmentAt(s, i) ==
    /\ i + 3 <= Len(s)
    /\ SubSeq(s, i, i + 2) = <<"/", "d", "/">>
    /\ s[i + 3] \in IdChars
HasSegment(s) == \E i \in 1..Len(s) : SegmentAt(s, i)
FirstSegment(s) == CHOOSE i \in 1..Len(s) : SegmentAt(s, i) /\ \A j \in 1..(i - 1) : ~SegmentAt(s, j)
CapturedId(s) ==
    LET b == FirstSegment(s) + 3
        e == CHOOSE e \in b..Len(s) :
                 /\ \A k \in b..e : s[k] \in IdChars
                 /\ e = Len(s) \/ s[e + 1] \notin IdChars
    IN  SubSeq(s, b, e)
ExpectedId(s) == IF HasSegment(s) THEN CapturedId(s) ELSE s

C4_SheetIdExtraction ==
    \A i \in 1..Len(calls) :
        calls[i].fn = "open_by_key" =>
            /\ locator.isStr
            /\ calls[i].arg = ExpectedId(locator.s)

C4_Witness ==
    /\ locator = Str(<<"/", "d", "/", "d", "-">>)
    /\ \E i \in 1..Len(calls) : calls[i].fn = "open_by_key" /\ calls[i].arg = <<"d", "-">>

(* C5: an email without "@" or not ending in ".iam.gserviceaccount.com"    *)
(* gets the warning and not the success; the success is only for an email  *)
(* with "@" that ends in that domain.                                      *)
EmailChecked == info.bound /\ Get(info.val, "client_email").isStr /\ pc \in {"s1_pk_header"}
HasSuffix(e) == EndsWith(e, ServiceDomain)

C5_EmailSuffix ==
    EmailChecked =>
        LET e == Get(info.val, "client_email").s
        IN  /\ ("@" \notin Elems(e) \/ ~HasSuffix(e)) =>
                  /\ out[Len(out)] = Msg("warning", "email_format", e)
            /\ Rendered("email_ok") => ("@" \in Elems(e) /\ HasSuffix(e))

(* C6: with a bound table of string values, when Step 1 ends the page is   *)
(* the prelude followed by exactly one outcome per check, in the order     *)
(* keys, email, header, footer, newline, each outcome fixed by its own     *)
(* predicate on the table alone.                                           *)
AllStrings ==
    /\ info.bound
    /\ Get(info.val, "client_email").isStr
    /\ Get(info.val, "private_key").isStr

HeaderPresent(pk) ==
    \E k \in 0..Len(pk) :
        /\ \A j \in 1..k : pk[j] \in Whitespace
        /\ k + 3 <= Len(pk)
        /\ pk[k + 1] = "-----" /\ pk[k + 2] = "BEGIN PRIVATE KEY" /\ pk[k + 3] = "-----"

FooterPresent(pk) ==
    \E k \in 0..Len(pk) :
        /\ \A j \in (Len(pk) - k + 1)..Len(pk) : pk[j] \in Whitespace
        /\ Len(pk) - k - 2 >= 1
        /\ pk[Len(pk) - k - 2] = "-----"
        /\ pk[Len(pk) - k - 1] = "END PRIVATE KEY"
        /\ pk[Len(pk) - k] = "-----"

NewlinePresent(pk) ==
    \E i \in 1..Len(pk) :
        \/ pk[i] = "\n"
        \/ i < Len(pk) /\ pk[i] = "\\" /\ pk[i + 1] = "n"

ExpectedStep1 ==
    LET e  == Get(info.val, "client_email").s
        pk == Get(info.val, "private_key").s
    IN  << IF RequiredSet \subseteq DOMAIN info.val THEN "keys_present" ELSE "missing_keys",
           IF "@" \in Elems(e) /\ Contains(ServiceDomain, e) THEN "email_ok" ELSE "email_format",
           "rule", "pk_check",
           IF HeaderPresent(pk) THEN "pk_header_ok" ELSE "pk_header_bad",
           IF FooterPresent(pk) THEN "pk_footer_ok" ELSE "pk_footer_bad",
           IF NewlinePresent(pk) THEN "pk_newline_ok" ELSE "pk_newline_missing" >>

C6_IndependentChecks ==
    (AllStrings /\ pc = "s2_header") =>
        /\ Len(out) = Len(Prelude) + 7
        /\ \A i \in 1..7 : out[Len(Prelude) + i].id = ExpectedStep1[i]
        /\ raised = <<>>

C6_Witness ==
    /\ pc = "s2_header"
    /\ AllStrings
    /\ Get(info.val, "private_key").s = <<"\n", "-----", "END PRIVATE KEY", "-----">>
    /\ Rendered("pk_header_bad") /\ Rendered("pk_footer_ok") /\ Rendered("pk_newline_ok")

(* C7: after a token was issued, when a Step 3 library call has raised and *)
(* the run is over, exactly one diagnosis is on the page: the not-found    *)
(* error with its action hint for SpreadsheetNotFound, the API error for   *)
(* APIError, the unexpected error for anything else; and no preview.       *)
Step3CallSites == {"s3_authorize", "s3_open", "s3_worksheet", "s3_read"}

C7_DiagnosisByKind ==
    (pc = "done" /\ Returned("refresh")) =>
        \A i \in 1..Len(raised) :
            raised[i].at \in Step3CallSites =>
                LET k == raised[i].kind
                    nf == TimesRendered("not_found")
                    api == TimesRendered("api_error")
                    other == TimesRendered("sheet_unexpected")
                IN  /\ k = "SpreadsheetNotFound" =>
                          nf = 1 /\ TimesRendered("not_found_action") = 1 /\ api = 0 /\ other = 0
                    /\ k = "APIError" => api = 1 /\ nf = 0 /\ other = 0
                    /\ k \notin {"SpreadsheetNotFound", "APIError"} =>
                          other = 1 /\ nf = 0 /\ api = 0
                    /\ ~Rendered("preview")

C7_Witness ==
    /\ pc = "done"
    /\ Returned("refresh")
    /\ \E i \in 1..Len(raised) : raised[i] = [at |-> "s3_open", kind |-> "SpreadsheetNotFound"]
    /\ Rendered("not_found")

(* C8: the preview is on the page exactly when the table was present, both *)
(* Step 2 calls returned, the connection entries were present and the four *)
(* Step 3 calls returned; it is there at most once and nothing follows it. *)
FullSuccess ==
    /\ TablePresent
    /\ Returned("from_service_account_info") /\ Returned("refresh")
    /\ ConnPresent
    /\ Returned("authorize") /\ Returned("open_by_key")
    /\ \E i \in 1..Len(calls) : calls[i] = Call("worksheet", <<"Sheet1">>, "ok")
    /\ Returned("get_all_records")

C8_PreviewIffFullSuccess ==
    /\ Rendered("preview") <=> FullSuccess
    /\ Rendered("preview") =>
          /\ TimesRendered("preview") = 1
          /\ out[Len(out)].id = "preview"
          /\ pc = "done"
    /\ ~RaisedAt(Step2Sites \cup Step3CallSites) \/ ~Rendered("preview")

C8_Witness ==
    /\ pc = "done"
    /\ FullSuccess
    /\ out[Len(out)] = M("dataframe", "preview")

(* C9 as stated: when the run is over, open_by_key was attempted exactly   *)
(* when the table was present, Step 2 did not raise and the connection     *)
(* entries were present with a string locator.                             *)
ThreeConditions ==
    /\ TablePresent
    /\ ~RaisedAt(Step2Sites)
    /\ ConnPresent /\ secrets.spreadsheet.isStr

C9_OpenIffThreeConditions ==
    pc = "done" => (Called("open_by_key") <=> ThreeConditions)

(* C9 amended: when the run is over, open_by_key was attempted exactly     *)
(* when the three conditions hold and gspread.authorize did not raise;     *)
(* with the table present Step 2 always attempts the credentials, and the  *)
(* refresh when they were built, whatever Step 1 found; and a missing      *)
(* connection entry ends the run on its error before authorize or          *)
(* open_by_key.                                                            *)
C9_OrderedStages ==
    /\ pc = "done" =>
          /\ Called("open_by_key") <=> (ThreeConditions /\ ~RaisedAt({"s3_authorize"}))
          /\ TablePresent =>
                /\ Called("from_service_account_info")
                /\ Returned("from_service_account_info") => Called("refresh")
          /\ (Rendered("step3") /\ ~ConnPresent) =>
                /\ out[Len(out)] = M("error", "no_connection")
                /\ ~Called("authorize") /\ ~Called("open_by_key")
    /\ (Called("authorize") \/ Called("open_by_key")) => ThreeConditions

C9_Witness ==
    /\ pc = "done"
    /\ Called("open_by_key")
    /\ Rendered("missing_keys") /\ Rendered("email_format")
    /\ Rendered("pk_header_bad") /\ Rendered("pk_newline_missing")

(* C10: credential construction is reached only with `info` bound by       *)
(* Step 1, and 'Authentication Failed' is rendered only when               *)
(* from_service_account_info was actually called.                          *)
C10_Step2OnLoadedRecord ==
    /\ pc \in {"s2_construct", "s2_refresh"} => info.bound
    /\ Rendered("auth_failed") => Called("from_service_account_info")

====
